---- MODULE Spec2Model ----
(***************************************************************************)
(* QMuPDF::Document (document.cpp): the lifecycle of one Document object   *)
(* driven by a host through load / unlock / close / the queries and       *)
(* ~Document.                                                              *)
(* The MuPDF engine is a black box: a file is described by what the engine *)
(* answers about it (does the stream open, does the parse throw, is a      *)
(* password needed, has the trailer a Root, ...).                          *)
(***************************************************************************)
EXTENDS Integers, Sequences, FiniteSets, TLC

\* ------------------------------------------------------------------ bounds
MaxOpens == 2       \* streams one Document object opens in a run
MaxPages == 1       \* largest page count the engine reports
MaxRejects == 2     \* rejected passwords counted per held document
MaxMajor == 2       \* largest major version in the engine's format string
MaxMinor == 10      \* largest minor version in the engine's format string

\* --------------------------------------------------------------- constants
Null == 0           \* nullptr (mdoc, stream, info)

PageModes == {"UseNone", "UseOutlines", "UseThumbs", "FullScreen", "UseOC", "UseAttachments"}

\* What pdf_dict_gets(root, "PageMode") can be: absent, an object that is not
\* a name, one of the six known names, or some other name.
ModeObjs == PageModes \cup {"absent", "notname", "TwoColumn"}

\* The mode objects of the files the host opens here: none, a known name and
\* an unknown one.
FileModes == {"absent", "UseOutlines", "TwoColumn"}

Locales == {"C", "de_DE"}

\* The password of every encrypted file is "owner"; the host also tries "guess".
Passwords == {"owner", "guess"}

\* A pdf_obj an Info entry holds: direct or an indirect reference (ind), of
\* string type or not, a string with its text as code points.
StrObj(ind, text) == [ind |-> ind, type |-> "string", text |-> text]
IntObj(ind) == [ind |-> ind, type |-> "int", text |-> << >>]

\* The trailer's Info entry: absent, or a dictionary whose entries the engine
\* enumerates by index (key object and value object).
NoInfo == [present |-> FALSE, keys |-> <<>>]
InfoDicts ==
    { NoInfo,
      [present |-> TRUE,
       keys |-> << [isName |-> TRUE, name |-> "Title",
                    val |-> StrObj(FALSE, << 82, 233, 115 >>)],
                   [isName |-> FALSE, name |-> "", val |-> IntObj(FALSE)],
                   [isName |-> TRUE, name |-> "Author",
                    val |-> StrObj(TRUE, << 8364 >>)],
                   [isName |-> TRUE, name |-> "Trapped", val |-> IntObj(FALSE)],
                   [isName |-> TRUE, name |-> "Pages", val |-> IntObj(TRUE)],
                   [isName |-> TRUE, name |-> "Subject",
                    val |-> StrObj(FALSE, << >>)] >>] }

\* The keys the host asks infoKey for ("Producer" is in no dictionary).
InfoKeyArgs == {"Title", "Author", "Trapped", "Pages", "Subject", "Producer"}

\* A file as the engine sees it.
Missing ==
    [exists |-> FALSE, parse |-> "throw", needsPw |-> FALSE, pw |-> "owner",
     hasRoot |-> FALSE, pages |-> 0, mode |-> "absent", info |-> NoInfo]

AllFiles ==
    [exists : BOOLEAN, parse : {"ok", "throw", "null"}, needsPw : BOOLEAN,
     pw : {"owner"}, hasRoot : BOOLEAN, pages : 0..MaxPages, mode : FileModes,
     info : InfoDicts]

\* One representative per engine behaviour: fields the engine never reads for
\* a file (the trailer of a file that does not parse, the page tree of a file
\* without Root) are fixed.
Files ==
    { f \in AllFiles :
        /\ (~f.exists => f = Missing)
        /\ (f.parse # "ok" => /\ ~f.needsPw /\ ~f.hasRoot
                              /\ f.pages = 0 /\ f.mode = "absent" /\ f.info = NoInfo)
        /\ (~f.hasRoot => f.pages = 0 /\ f.mode = "absent") }

VARIABLES
    d,            \* Document::Data: mdoc, stream, pageCount, info, pageMode, locked
    ctx,          \* d->ctx: "live" until ~Document drops it
    locale,       \* the process's LC_NUMERIC locale
    mfile,        \* engine: the file behind the document d.mdoc points to
    authed,       \* engine: a password was accepted for that document
    nextId,       \* engine: the next handle fz_open_file hands out
    docs,         \* engine: document handles handed out so far
    relLog,       \* engine: drop calls so far, in order
    phase,        \* lifecycle state of the object
    last,         \* the last call: operation, return value, exit path, engine calls
    localeBefore, \* locale when the last load was entered
    rejects,      \* passwords rejected for the held document
    noRootSince,  \* a load step failed for a missing Root, no successful open since
    crashed,      \* the process died in the engine
    reply         \* the last query: what the engine answered, what was returned

vars == << d, ctx, locale, mfile, authed, nextId, docs, relLog, phase, last,
           localeBefore, rejects, noRootSince, crashed, reply >>

\* -------------------------------------------------------------- the engine

\* fz_open_file: a stream handle, or nullptr when the file cannot be opened.
fz_open_file(f, id) == IF f.exists THEN id ELSE Null

\* std::setlocale(LC_NUMERIC, name): installs `name` and returns the string of
\* the locale now in force (the new one), or "" for a request it cannot honour.
setlocale(cur, name) ==
    IF name \in Locales THEN [locale |-> name, ret |-> name]
                        ELSE [locale |-> cur, ret |-> ""]

\* fz_open_document_with_stream: throws, or returns a document (or nullptr).
fz_open_document_with_stream(f, s) ==
    CASE f.parse = "throw" -> [thrown |-> TRUE, doc |-> Null]
      [] f.parse = "null"  -> [thrown |-> FALSE, doc |-> Null]
      [] OTHER             -> [thrown |-> FALSE, doc |-> s]

fz_needs_password(f) == f.needsPw

fz_authenticate_password(f, password) == password = f.pw

\* -------------------------------------------------------- Document::Data

\* A null pdf_obj pointer; a non-null one is the Info dictionary of document `of`.
NullInfo == [of |-> Null, dict |-> NoInfo]

NewData ==
    [mdoc |-> Null, stream |-> Null, pageCount |-> 0, info |-> NullInfo,
     pageMode |-> "UseNone", locked |-> FALSE]

\* The strcmp chain of Data::load.
ParsePageMode(obj, cur) ==
    IF obj # "absent" /\ obj # "notname"
    THEN IF obj = "UseNone" THEN "UseNone"
         ELSE IF obj = "UseOutlines" THEN "UseOutlines"
         ELSE IF obj = "UseThumbs" THEN "UseThumbs"
         ELSE IF obj = "FullScreen" THEN "FullScreen"
         ELSE IF obj = "UseOC" THEN "UseOC"
         ELSE IF obj = "UseAttachments" THEN "UseAttachments"
         ELSE cur
    ELSE cur

\* Data::load on the document whose file is f.
Data_load(dd, f) ==
    IF ~f.hasRoot
    THEN [ok |-> FALSE, d |-> dd, calls |-> {"pdf_trailer"}]
    ELSE [ok |-> TRUE,
          d |-> [dd EXCEPT !.pageCount = f.pages,
                           !.pageMode = ParsePageMode(f.mode, dd.pageMode)],
          calls |-> {"pdf_trailer", "fz_count_pages"}]

\* Data::loadInfoDict: info is a borrowed pointer into document d.mdoc.
loadInfoDict(dd, f) ==
    IF dd.info = NullInfo
    THEN [dd EXCEPT !.info = IF f.info.present
                             THEN [of |-> dd.mdoc, dict |-> f.info]
                             ELSE NullInfo]
    ELSE dd

\* ------------------------------------------------------------- Document

\* The fz_catch block without its d->mdoc = nullptr.
load_catch_keep(dd) == dd

\* The fz_catch block of Document::load.
load_catch(dd) == [dd EXCEPT !.mdoc = Null]

\* if (oldlocale) setlocale(LC_NUMERIC, oldlocale): the locale afterwards.
load_restore(cur, oldlocale) ==
    IF oldlocale # "" THEN setlocale(cur, oldlocale).locale ELSE cur

\* Document::load(fileName): f is the file behind the name, id the handle the
\* engine gives a stream it opens, loc the locale at entry.
Document_load(dd, f, id, loc) ==
    LET s  == fz_open_file(f, id)
        d1 == [dd EXCEPT !.stream = s]
    IN  IF s = Null
        THEN [d |-> d1, ret |-> FALSE, why |-> "stream", locale |-> loc,
              calls |-> {"fz_open_file"}]
        ELSE
        LET sl == setlocale(loc, "C")
            r  == fz_open_document_with_stream(f, s)
            c2 == {"fz_open_file", "fz_open_document_with_stream"}
        IN  IF r.thrown
            THEN [d |-> load_catch(d1), ret |-> FALSE, why |-> "parse",
                  locale |-> sl.locale, calls |-> c2]
            ELSE
            LET loc2 == load_restore(sl.locale, sl.ret)
                d2   == [d1 EXCEPT !.mdoc = r.doc]
            IN  IF d2.mdoc = Null
                THEN [d |-> d2, ret |-> FALSE, why |-> "nulldoc",
                      locale |-> loc2, calls |-> c2]
                ELSE
                LET d3 == [d2 EXCEPT !.locked = fz_needs_password(f)]
                    c3 == c2 \cup {"fz_needs_password"}
                IN  IF ~d3.locked
                    THEN LET l == Data_load(d3, f)
                         IN  [d |-> l.d, ret |-> l.ok,
                              why |-> IF l.ok THEN "open" ELSE "noroot",
                              locale |-> loc2, calls |-> c3 \cup l.calls]
                    ELSE [d |-> d3, ret |-> TRUE, why |-> "locked",
                          locale |-> loc2, calls |-> c3]

\* Document::close: the new Data and the drop calls made, in order
\* (fz_drop_stream of a null stream does nothing).
Document_close(dd) ==
    IF dd.mdoc = Null
    THEN [d |-> dd, rel |-> <<>>]
    ELSE [d |-> [dd EXCEPT !.mdoc = Null, !.stream = Null, !.pageCount = 0,
                           !.info = NullInfo, !.pageMode = "UseNone",
                           !.locked = FALSE],
          rel |-> << [kind |-> "doc", id |-> dd.mdoc] >>
                  \o (IF dd.stream # Null
                      THEN << [kind |-> "stream", id |-> dd.stream] >>
                      ELSE << >>)]

\* Document::unlock clearing locked before it asks the engine.
Document_unlock_clearfirst(dd, accept, f) ==
    IF ~dd.locked
    THEN [d |-> dd, ret |-> FALSE, why |-> "notlocked", calls |-> {}]
    ELSE IF ~accept
    THEN [d |-> [dd EXCEPT !.locked = FALSE], ret |-> FALSE, why |-> "rejected",
          calls |-> {"fz_authenticate_password"}]
    ELSE LET l == Data_load([dd EXCEPT !.locked = FALSE], f)
         IN  [d |-> l.d, ret |-> l.ok, why |-> IF l.ok THEN "open" ELSE "noroot",
              calls |-> {"fz_authenticate_password"} \cup l.calls]

\* Document::unlock returning true on an accepted password without the load step.
Document_unlock_skipload(dd, accept, f) ==
    IF ~dd.locked
    THEN [d |-> dd, ret |-> FALSE, why |-> "notlocked", calls |-> {}]
    ELSE IF ~accept
    THEN [d |-> dd, ret |-> FALSE, why |-> "rejected",
          calls |-> {"fz_authenticate_password"}]
    ELSE [d |-> [dd EXCEPT !.locked = FALSE], ret |-> TRUE, why |-> "open",
          calls |-> {"fz_authenticate_password"}]

\* Document::unlock(password): accept is the engine's answer to
\* fz_authenticate_password should it be asked, f the file behind d.mdoc.
Document_unlock(dd, accept, f) ==
    IF ~dd.locked
    THEN [d |-> dd, ret |-> FALSE, why |-> "notlocked", calls |-> {}]
    ELSE IF ~accept
    THEN [d |-> dd, ret |-> FALSE, why |-> "rejected",
          calls |-> {"fz_authenticate_password"}]
    ELSE LET l == Data_load([dd EXCEPT !.locked = FALSE], f)
         IN  [d |-> l.d, ret |-> l.ok, why |-> IF l.ok THEN "open" ELSE "noroot",
              calls |-> {"fz_authenticate_password"} \cup l.calls]

\* The loop of Document::infoKeys from index i on.
RECURSIVE InfoKeyNames(_, _)
InfoKeyNames(keys, i) ==
    IF i > Len(keys) THEN << >>
    ELSE (IF keys[i].isName THEN << keys[i].name >> ELSE << >>)
         \o InfoKeyNames(keys, i + 1)

\* Document::infoKeys: the new Data (info is memoized) and the keys returned.
Document_infoKeys(dd, f) ==
    IF dd.mdoc = Null
    THEN [d |-> dd, keys |-> << >>, calls |-> {}]
    ELSE LET d1 == loadInfoDict(dd, f)
         IN  IF d1.info = NullInfo
             THEN [d |-> d1, keys |-> << >>, calls |-> {"pdf_trailer"}]
             ELSE [d |-> d1, keys |-> InfoKeyNames(d1.info.dict.keys, 1),
                   calls |-> {"pdf_trailer", "pdf_dict_len"}]

\* ---------------------------------------------------------------- infoKey

\* pdf_dict_gets(dict, key): the value of the first entry whose key is the
\* name `key`, or absent.
pdf_dict_gets(dict, key) ==
    LET hits == { i \in DOMAIN dict.keys :
                    dict.keys[i].isName /\ dict.keys[i].name = key }
    IN  IF hits = {}
        THEN [found |-> FALSE, obj |-> IntObj(FALSE)]
        ELSE [found |-> TRUE,
              obj |-> dict.keys[CHOOSE i \in hits : \A j \in hits : i <= j].val]

\* pdf_resolve_indirect: an indirect reference becomes its target.
pdf_resolve_indirect(obj) == [obj EXCEPT !.ind = FALSE]

pdf_is_string(obj) == obj.type = "string"

\* The UTF-8 bytes of one code point (below 65536).
Utf8Bytes(cp) ==
    IF cp < 128 THEN << cp >>
    ELSE IF cp < 2048 THEN << 192 + (cp \div 64), 128 + (cp % 64) >>
    ELSE << 224 + (cp \div 4096), 128 + ((cp \div 64) % 64), 128 + (cp % 64) >>

\* pdf_new_utf8_from_pdf_string_obj: the string's text as UTF-8 bytes.
RECURSIVE pdf_new_utf8_from_pdf_string_obj(_)
pdf_new_utf8_from_pdf_string_obj(text) ==
    IF text = << >> THEN << >>
    ELSE Utf8Bytes(Head(text)) \o pdf_new_utf8_from_pdf_string_obj(Tail(text))

\* QString::fromUtf8 from byte i on: code points, U+FFFD for a byte that
\* starts no complete sequence.
RECURSIVE QString_fromUtf8(_, _)
QString_fromUtf8(bytes, i) ==
    IF i > Len(bytes) THEN << >>
    ELSE LET b == bytes[i]
         IN  IF b < 128
             THEN << b >> \o QString_fromUtf8(bytes, i + 1)
             ELSE IF b >= 192 /\ b < 224 /\ i + 1 <= Len(bytes)
             THEN << (b - 192) * 64 + (bytes[i + 1] - 128) >>
                  \o QString_fromUtf8(bytes, i + 2)
             ELSE IF b >= 224 /\ b < 240 /\ i + 2 <= Len(bytes)
             THEN << (b - 224) * 4096 + (bytes[i + 1] - 128) * 64
                     + (bytes[i + 2] - 128) >>
                  \o QString_fromUtf8(bytes, i + 3)
             ELSE << 65533 >> \o QString_fromUtf8(bytes, i + 1)

\* Document::infoKey(key): the new Data (info is memoized) and the text
\* returned (empty for QString()).
Document_infoKey(dd, f, key) ==
    IF dd.mdoc = Null
    THEN [d |-> dd, value |-> << >>, why |-> "nodoc", calls |-> {}]
    ELSE
    LET d1 == loadInfoDict(dd, f)
    IN  IF d1.info = NullInfo
        THEN [d |-> d1, value |-> << >>, why |-> "noinfo", calls |-> {"pdf_trailer"}]
        ELSE
        LET e == pdf_dict_gets(d1.info.dict, key)
            c == {"pdf_trailer", "pdf_dict_gets"}
        IN  IF ~e.found
            THEN [d |-> d1, value |-> << >>, why |-> "absent", calls |-> c]
            ELSE
            LET obj == pdf_resolve_indirect(e.obj)
            IN  IF ~pdf_is_string(obj)
                THEN [d |-> d1, value |-> << >>, why |-> "notstring",
                      calls |-> c \cup {"pdf_resolve_indirect"}]
                ELSE [d |-> d1,
                      value |-> QString_fromUtf8(
                                    pdf_new_utf8_from_pdf_string_obj(obj.text), 1),
                      why |-> "string",
                      calls |-> c \cup {"pdf_resolve_indirect",
                                        "pdf_new_utf8_from_pdf_string_obj"}]

\* ---------------------------------------------------------------- outline

\* A char* of an fz_outline node: null, or bytes.
NoStr == [has |-> FALSE, s |-> << >>]
Str(bytes) == [has |-> TRUE, s |-> bytes]

\* An fz_outline node; its next-siblings are the rest of the sequence it is in.
Node(title, uri, down) == [title |-> title, uri |-> uri, down |-> down]

\* What fz_load_outline can answer: no outline (null), or a list of siblings.
OutlineForests ==
    { << >>,
      << Node(Str(<< 67, 49 >>), Str(<< 35, 49 >>),
              << Node(Str(<< 83, 49 >>), Str(<< 35, 50 >>), << >>) >>) >>,
      << Node(Str(<< 65 >>), NoStr,
              << Node(Str(<< 97 >>), NoStr, << >>),
                 Node(Str(<< 98 >>), NoStr,
                      << Node(Str(<< 120 >>), NoStr, << >>) >>) >>),
         Node(NoStr, Str(<< 35, 57 >>), << >>),
         Node(Str(<< 195, 169 >>), NoStr,
              << Node(Str(<< 99 >>), NoStr, << >>) >>) >> }

\* Outline::Outline(): the synthetic root, without title, link or children.
EmptyOutline == [title |-> << >>, link |-> << >>, children |-> << >>]

\* Outline::Outline(const fz_outline *).
NewOutline(n) ==
    [title |-> IF n.title.has THEN QString_fromUtf8(n.title.s, 1) ELSE << >>,
     link |-> IF n.uri.has THEN n.uri.s ELSE << >>,
     children |-> << >>]

\* Data::convertOutline appending each child at the front of the list.
RECURSIVE convertOutline_prepend(_, _)
convertOutline_prepend(list, item) ==
    IF list = << >> THEN item
    ELSE LET child == convertOutline_prepend(Head(list).down, NewOutline(Head(list)))
         IN  convertOutline_prepend(Tail(list),
                 [item EXCEPT !.children = << child >> \o @])

\* Data::convertOutline(out, item): item with a child for every sibling from
\* `out` on, each child converted with its own nested list.
RECURSIVE convertOutline(_, _)
convertOutline(list, item) ==
    IF list = << >> THEN item
    ELSE LET child == convertOutline(Head(list).down, NewOutline(Head(list)))
         IN  convertOutline(Tail(list),
                 [item EXCEPT !.children = Append(@, child)])

\* Document::outline(): forest is the engine's answer to fz_load_outline. The
\* result is absent (nullptr) or the synthetic root; events are the engine
\* and constructor calls in order.
Document_outline(dd, forest) ==
    IF forest = << >>
    THEN [has |-> FALSE, root |-> EmptyOutline, nullDoc |-> dd.mdoc = Null,
          events |-> << "fz_load_outline" >>]
    ELSE [has |-> TRUE, root |-> convertOutline(forest, EmptyOutline),
          nullDoc |-> dd.mdoc = Null,
          events |-> << "fz_load_outline", "new Outline", "convertOutline",
                        "fz_drop_outline" >>]

\* -------------------------------------------------------------- pdfVersion

DigitChars == << "0", "1", "2", "3", "4", "5", "6", "7", "8", "9" >>

IsDigit(c) == \E k \in 1..10 : DigitChars[k] = c

DigitVal(c) == (CHOOSE k \in 1..10 : DigitChars[k] = c) - 1

IsSpace(c) == c = " "

\* The engine's "%d" of a number >= 0.
RECURSIVE Digits(_)
Digits(n) ==
    IF n < 10 THEN << DigitChars[n + 1] >>
    ELSE Digits(n \div 10) \o << DigitChars[(n % 10) + 1] >>

\* The format string the engine writes for a PDF: "PDF %d.%d".
FormatString(major, minor) ==
    << "P", "D", "F", " " >> \o Digits(major) \o << "." >> \o Digits(minor)

\* Strings that are not of that form.
OtherFormats ==
    { << >>,
      << "P", "D", "F" >>,
      << "P", "D", "F", " ", "1" >>,
      << "P", "D", "F", " ", "1", "." >>,
      << "P", "D", "F", " ", "x", ".", "7" >>,
      << "X", "P", "S", " ", "1", ".", "0" >>,
      << "p", "d", "f", " ", "1", ".", "7" >> }

\* fz_lookup_metadata finding nothing (-1), or not asked.
NoMeta == [found |-> FALSE, buf |-> << >>]

\* What fz_lookup_metadata(FZ_META_FORMAT) can answer: -1, or a string in buf.
MetaAnswers ==
    { NoMeta }
    \cup { [found |-> TRUE, buf |-> FormatString(ma, mi)] :
             ma \in 0..MaxMajor, mi \in 0..MaxMinor }
    \cup { [found |-> TRUE, buf |-> b] : b \in OtherFormats }

\* sscanf: the index of the first character from i on that is no white space.
RECURSIVE SkipSpace(_, _)
SkipSpace(buf, i) ==
    IF i <= Len(buf) /\ IsSpace(buf[i]) THEN SkipSpace(buf, i + 1) ELSE i

\* sscanf: the digits from i on, added to acc.
RECURSIVE ScanDigits(_, _, _)
ScanDigits(buf, i, acc) ==
    IF i <= Len(buf) /\ IsDigit(buf[i])
    THEN ScanDigits(buf, i + 1, 10 * acc + DigitVal(buf[i]))
    ELSE [val |-> acc, next |-> i]

\* sscanf's %d at i: white space, an optional sign, at least one digit.
ScanInt(buf, i) ==
    LET j    == SkipSpace(buf, i)
        sign == j <= Len(buf) /\ buf[j] \in {"+", "-"}
        k    == IF sign THEN j + 1 ELSE j
    IN  IF k <= Len(buf) /\ IsDigit(buf[k])
        THEN LET r == ScanDigits(buf, k, 0)
             IN  [ok |-> TRUE,
                  val |-> IF sign /\ buf[j] = "-" THEN 0 - r.val ELSE r.val,
                  next |-> r.next]
        ELSE [ok |-> FALSE, val |-> 0, next |-> k]

\* sscanf(buf, "PDF %d.%d", &major, &minor): the number of conversions made.
sscanf_PDF(buf) ==
    IF ~(Len(buf) >= 3 /\ buf[1] = "P" /\ buf[2] = "D" /\ buf[3] = "F")
    THEN [n |-> 0, major |-> 0, minor |-> 0]
    ELSE
    LET a == ScanInt(buf, SkipSpace(buf, 4))
    IN  IF ~a.ok THEN [n |-> 0, major |-> 0, minor |-> 0]
        ELSE IF ~(a.next <= Len(buf) /\ buf[a.next] = ".")
        THEN [n |-> 1, major |-> a.val, minor |-> 0]
        ELSE
        LET b == ScanInt(buf, a.next + 1)
        IN  IF ~b.ok THEN [n |-> 1, major |-> a.val, minor |-> 0]
            ELSE [n |-> 2, major |-> a.val, minor |-> b.val]

\* major + minor / 10 in integer arithmetic, in tenths.
version_intdiv(major, minor) == 10 * (major + (minor \div 10))

\* float(major + minor / 10.0), in tenths.
version(major, minor) == 10 * major + minor

\* Document::pdfVersion(): meta is the engine's answer to fz_lookup_metadata.
\* The value returned, in tenths.
Document_pdfVersion(dd, meta) ==
    IF dd.mdoc = Null
    THEN [value |-> 0, calls |-> {}]
    ELSE IF meta.found
    THEN LET r == sscanf_PDF(meta.buf)
         IN  [value |-> IF r.n = 2 THEN version(r.major, r.minor) ELSE 0,
              calls |-> {"fz_lookup_metadata"}]
    ELSE [value |-> 0, calls |-> {"fz_lookup_metadata"}]

\* -------------------------------------------------------- the state machine

Phases == {"Unopened", "Failed", "NoRoot", "Locked", "Open", "Closed"}

\* No query has been answered by the last call.
NoReply == [engine |-> << >>, value |-> << >>]

\* Document::Document(): a fresh Data and a live context.
Init ==
    /\ d = NewData
    /\ ctx = "live"
    /\ locale \in Locales
    /\ mfile = Missing
    /\ authed = FALSE
    /\ nextId = 1
    /\ docs = {}
    /\ relLog = << >>
    /\ phase = "Unopened"
    /\ last = [op |-> "new", ret |-> TRUE, why |-> "new", calls |-> {}, keys |-> << >>]
    /\ localeBefore = locale
    /\ rejects = 0
    /\ noRootSince = FALSE
    /\ crashed = FALSE
    /\ reply = NoReply

\* The object exists and the process is running.
Usable == ctx = "live" /\ ~crashed

\* The engine's side of a change of d.mdoc: which file is behind the handle.
HeldFile(old, new, f) ==
    IF new.mdoc = old.mdoc THEN mfile
    ELSE IF new.mdoc = Null THEN Missing ELSE f

\* The host calls load(fileName).
Load(f) ==
    /\ Usable
    /\ f.exists => nextId <= MaxOpens
    /\ LET r == Document_load(d, f, nextId, locale)
           opened == r.why \in {"noroot", "locked", "open"}
       IN  /\ d' = r.d
           /\ locale' = r.locale
           /\ localeBefore' = locale
           /\ mfile' = HeldFile(d, r.d, f)
           /\ authed' = IF r.d.mdoc = d.mdoc THEN authed ELSE FALSE
           /\ rejects' = IF r.d.mdoc = d.mdoc THEN rejects ELSE 0
           /\ nextId' = IF f.exists THEN nextId + 1 ELSE nextId
           /\ docs' = IF opened THEN docs \cup {nextId} ELSE docs
           /\ phase' = CASE r.why = "stream" -> phase
                         [] r.why \in {"parse", "nulldoc"} -> "Failed"
                         [] r.why = "noroot" -> "NoRoot"
                         [] r.why = "locked" -> "Locked"
                         [] OTHER -> "Open"
           /\ noRootSince' = IF r.why = "noroot" THEN TRUE
                             ELSE IF r.ret THEN FALSE ELSE noRootSince
           /\ last' = [op |-> "load", ret |-> r.ret, why |-> r.why,
                       calls |-> r.calls, keys |-> << >>]
           /\ UNCHANGED << ctx, relLog, crashed >>
           /\ reply' = NoReply

\* The host calls unlock(password) while a document is held, or while not locked.
Unlock(password) ==
    /\ Usable
    /\ d.mdoc # Null \/ ~d.locked
    /\ LET r == Document_unlock(d, fz_authenticate_password(mfile, password), mfile)
       IN  /\ r.why = "rejected" => rejects < MaxRejects
           /\ d' = r.d
           /\ authed' = (authed \/ r.why \in {"open", "noroot"})
           /\ rejects' = IF r.why = "rejected" THEN rejects + 1 ELSE rejects
           /\ phase' = CASE r.why = "open" -> "Open"
                         [] r.why = "noroot" -> "NoRoot"
                         [] OTHER -> phase
           /\ noRootSince' = (noRootSince \/ r.why = "noroot")
           /\ last' = [op |-> "unlock", ret |-> r.ret, why |-> r.why,
                       calls |-> r.calls, keys |-> << >>]
           /\ UNCHANGED << ctx, locale, mfile, nextId, docs, relLog,
                           localeBefore, crashed >>
           /\ reply' = NoReply

\* unlock(password) with locked set and d.mdoc null: the engine is handed a
\* null document. It may answer either way or the process dies; a password it
\* accepts leads Data::load to read the trailer of a null document, which
\* finds no Root or dies.
UnlockNullDoc ==
    /\ Usable
    /\ d.mdoc = Null /\ d.locked
    /\ \E out \in {"reject", "accept", "crash"} :
         IF out = "crash"
         THEN /\ crashed' = TRUE
              /\ last' = [op |-> "unlock", ret |-> FALSE, why |-> "crash",
                          calls |-> {"fz_authenticate_password"}, keys |-> << >>]
              /\ UNCHANGED << d, ctx, locale, mfile, authed, nextId, docs, relLog,
                              phase, localeBefore, rejects, noRootSince >>
              /\ reply' = NoReply
         ELSE LET r == Document_unlock(d, out = "accept", Missing)
              IN  /\ d' = r.d
                  /\ last' = [op |-> "unlock", ret |-> r.ret, why |-> r.why,
                              calls |-> r.calls, keys |-> << >>]
                  /\ UNCHANGED << ctx, locale, mfile, authed, nextId, docs, relLog,
                                  phase, localeBefore, rejects, noRootSince, crashed >>
                  /\ reply' = NoReply

\* The host calls close().
Close ==
    /\ Usable
    /\ LET r == Document_close(d)
       IN  /\ d' = r.d
           /\ relLog' = relLog \o r.rel
           /\ mfile' = HeldFile(d, r.d, mfile)
           /\ authed' = IF r.d.mdoc = d.mdoc THEN authed ELSE FALSE
           /\ rejects' = IF r.d.mdoc = d.mdoc THEN rejects ELSE 0
           /\ phase' = "Closed"
           /\ last' = [op |-> "close", ret |-> TRUE, why |-> "close",
                       calls |-> { "fz_drop_" \o r.rel[i].kind : i \in 1..Len(r.rel) },
                       keys |-> << >>]
           /\ UNCHANGED << ctx, locale, nextId, docs, localeBefore, noRootSince,
                           crashed >>
           /\ reply' = NoReply

\* Document::~Document(): close(), then fz_drop_context.
Destroy ==
    /\ Usable
    /\ LET r == Document_close(d)
       IN  /\ d' = r.d
           /\ relLog' = (relLog \o r.rel) \o << [kind |-> "ctx", id |-> Null] >>
           /\ ctx' = "dropped"
           /\ mfile' = HeldFile(d, r.d, mfile)
           /\ authed' = IF r.d.mdoc = d.mdoc THEN authed ELSE FALSE
           /\ rejects' = IF r.d.mdoc = d.mdoc THEN rejects ELSE 0
           /\ phase' = "Closed"
           /\ last' = [op |-> "destroy", ret |-> TRUE, why |-> "destroy",
                       calls |-> { "fz_drop_" \o r.rel[i].kind : i \in 1..Len(r.rel) }
                                 \cup {"fz_drop_context"},
                       keys |-> << >>]
           /\ UNCHANGED << locale, nextId, docs, localeBefore, noRootSince, crashed >>
           /\ reply' = NoReply

\* The host calls infoKeys().
InfoKeys ==
    /\ Usable
    /\ LET r == Document_infoKeys(d, mfile)
       IN  /\ d' = r.d
           /\ last' = [op |-> "infoKeys", ret |-> TRUE, why |-> "infoKeys",
                       calls |-> r.calls, keys |-> r.keys]
           /\ UNCHANGED << ctx, locale, mfile, authed, nextId, docs, relLog, phase,
                           localeBefore, rejects, noRootSince, crashed >>
           /\ reply' = NoReply

\* The host calls infoKey(key).
InfoKey(key) ==
    /\ Usable
    /\ LET r == Document_infoKey(d, mfile, key)
       IN  /\ d' = r.d
           /\ last' = [op |-> "infoKey", ret |-> TRUE, why |-> r.why,
                       calls |-> r.calls, keys |-> << >>]
           /\ reply' = [engine |-> key, value |-> r.value]
           /\ UNCHANGED << ctx, locale, mfile, authed, nextId, docs, relLog, phase,
                           localeBefore, rejects, noRootSince, crashed >>

\* The host calls outline() while a document is held: the engine answers.
Outline(forest) ==
    /\ Usable
    /\ d.mdoc # Null
    /\ LET r == Document_outline(d, forest)
       IN  /\ last' = [op |-> "outline", ret |-> r.has,
                       why |-> IF r.nullDoc THEN "nulldoc" ELSE "outline",
                       calls |-> { r.events[i] : i \in DOMAIN r.events },
                       keys |-> << >>]
           /\ reply' = [engine |-> forest,
                        value |-> [has |-> r.has, root |-> r.root, events |-> r.events]]
           /\ UNCHANGED << d, ctx, locale, mfile, authed, nextId, docs, relLog,
                           phase, localeBefore, rejects, noRootSince, crashed >>

\* outline() with d.mdoc null: fz_load_outline is handed a null document; it
\* reports no outline, or the process dies.
OutlineNullDoc ==
    /\ Usable
    /\ d.mdoc = Null
    /\ \E dies \in BOOLEAN :
         LET r == Document_outline(d, << >>)
         IN  /\ crashed' = dies
             /\ last' = [op |-> "outline", ret |-> r.has,
                         why |-> IF dies THEN "crash"
                                 ELSE IF r.nullDoc THEN "nulldoc" ELSE "outline",
                         calls |-> { r.events[i] : i \in DOMAIN r.events },
                         keys |-> << >>]
             /\ reply' = [engine |-> << >>,
                          value |-> [has |-> r.has, root |-> r.root, events |-> r.events]]
             /\ UNCHANGED << d, ctx, locale, mfile, authed, nextId, docs, relLog,
                             phase, localeBefore, rejects, noRootSince >>

\* The host calls pdfVersion().
PdfVersion(meta) ==
    /\ Usable
    /\ LET r == Document_pdfVersion(d, meta)
       IN  /\ last' = [op |-> "pdfVersion", ret |-> TRUE, why |-> "pdfVersion",
                       calls |-> r.calls, keys |-> << >>]
           /\ reply' = [engine |-> IF d.mdoc = Null THEN NoMeta ELSE meta,
                        value |-> r.value]
           /\ UNCHANGED << d, ctx, locale, mfile, authed, nextId, docs, relLog,
                           phase, localeBefore, rejects, noRootSince, crashed >>

Next ==
    \/ \E f \in Files : Load(f)
    \/ \E password \in Passwords : Unlock(password)
    \/ UnlockNullDoc
    \/ Close
    \/ Destroy
    \/ InfoKeys

Spec == Init /\ [][Next]_vars

\* The files of the query specification: one per lifecycle outcome, with and
\* without an Info dictionary.
QFiles ==
    { f \in Files :
        /\ f.parse # "null"
        /\ f.mode = "absent"
        /\ f.parse = "ok" => f.hasRoot /\ f.pages = MaxPages }

\* The object under load, unlock, close and the Info and outline queries.
NextQ ==
    \/ \E f \in QFiles : Load(f)
    \/ \E password \in Passwords : Unlock(password)
    \/ Close
    \/ InfoKeys
    \/ \E key \in InfoKeyArgs : InfoKey(key)
    \/ \E forest \in OutlineForests : Outline(forest)
    \/ OutlineNullDoc

SpecQ == Init /\ [][NextQ]_vars

\* The files of the version specification: missing, unparsable, plain.
VFiles == { f \in QFiles : ~f.needsPw /\ ~f.info.present }

\* The object under load, close and pdfVersion.
NextV ==
    \/ \E f \in VFiles : Load(f)
    \/ Close
    \/ \E meta \in MetaAnswers : PdfVersion(meta)

SpecV == Init /\ [][NextV]_vars

\* =================================================================== claims

\* How often the engine was asked to drop handle id of the given kind.
Drops(kind, id) ==
    Cardinality({ i \in DOMAIN relLog : relLog[i] = [kind |-> kind, id |-> id] })

\* Stream handles the engine has handed out (every fz_open_file that succeeded).
Streams == 1..(nextId - 1)

\* Where the first drop of the handle stands in relLog (0: never dropped).
DropAt(kind, id) ==
    IF Drops(kind, id) = 0 THEN 0
    ELSE CHOOSE i \in DOMAIN relLog :
            /\ relLog[i] = [kind |-> kind, id |-> id]
            /\ \A j \in 1..(i - 1) : relLog[j] # relLog[i]

\* C1: after every load, whether the engine opened the document or threw, the
\* numeric locale equals the locale before load was called.
C1_LocaleRestored ==
    last.op = "load" => locale = localeBefore

\* C2 (as claimed): the document handle is non-null exactly in the Open state;
\* it is null in Unopened, Failed (parse failure or missing Root), Locked and
\* closed states.
C2_HandleIffOpen ==
    (d.mdoc # Null) <=> (phase = "Open")

\* C2 (amended): the document handle is non-null exactly while a document the
\* engine opened is held, that is in the Open, Locked and missing-Root states;
\* it is null in the Unopened, parse-Failed and closed states.
C2_HandleIffHeld ==
    (d.mdoc # Null) <=> (phase \in {"Open", "Locked", "NoRoot"})

\* C2 witness: an encrypted document awaits its password, its handle held.
C2_Witness ==
    phase = "Locked" /\ d.mdoc # Null /\ last.op = "load" /\ last.ret

\* C3: after close or destruction every stream and document handle the engine
\* handed out has been dropped exactly once.
C3_ReleasedExactlyOnce ==
    last.op \in {"close", "destroy"} =>
        /\ \A id \in Streams : Drops("stream", id) = 1
        /\ \A id \in docs : Drops("doc", id) = 1

\* C4: a document is dropped before its stream, and the context is dropped
\* only when every stream and document handle has been dropped before it.
C4_TeardownOrder ==
    /\ \A id \in docs :
          Drops("stream", id) > 0 =>
              /\ Drops("doc", id) > 0
              /\ DropAt("doc", id) < DropAt("stream", id)
    /\ ctx = "dropped" =>
          /\ \A id \in Streams : Drops("stream", id) > 0
          /\ \A id \in docs : Drops("doc", id) > 0
          /\ relLog[Len(relLog)].kind = "ctx"

\* C5: after close() returns both handles are null, pageCount is 0, pageMode
\* is UseNone, the cached Info reference is absent and locked is false.
C5_CloseResets ==
    last.op = "close" =>
        /\ d.mdoc = Null /\ d.stream = Null
        /\ d.pageCount = 0 /\ d.pageMode = "UseNone"
        /\ d.info = NullInfo /\ ~d.locked

\* C6: pageCount is never negative, and it is 0 whenever the load step has not
\* succeeded for the held document (Unopened, Failed, Locked, closed).
C6_PageCountZeroUntilLoaded ==
    /\ d.pageCount >= 0
    /\ phase # "Open" => d.pageCount = 0

\* C7: locked holds exactly when the held document needs a password and none
\* has been accepted for it; it is false when no document is held.
C7_LockedIffNeedsAuth ==
    d.locked <=> (d.mdoc # Null /\ fz_needs_password(mfile) /\ ~authed)

\* C8: an unlock that fails because the object is not locked or because the
\* engine rejects the password returns false and leaves Data as it was; not
\* locked, it calls nothing in the engine; rejected, the object stays locked,
\* and after rejections the right password is still accepted, with the result
\* of the load step.
C8_FailedUnlockFrame ==
    [][ /\ (last'.op = "unlock" /\ last'.why \in {"notlocked", "rejected"}) =>
             /\ d' = d
             /\ ~last'.ret
             /\ (last'.why = "notlocked" => last'.calls = {})
             /\ (last'.why = "rejected" => d'.locked /\ phase' = phase)
        /\ (d.locked /\ d.mdoc # Null /\ rejects > 0 /\ Unlock(mfile.pw)) =>
             /\ ~d'.locked
             /\ last'.ret = mfile.hasRoot
             /\ last'.why \in {"open", "noroot"}
      ]_vars

\* C8 witness: passwords were rejected and then the right one was accepted.
C8_Witness ==
    /\ last.op = "unlock" /\ last.ret /\ rejects = 2
    /\ authed /\ ~d.locked /\ phase = "Open"

\* C9: from Locked, unlock with a password the engine accepts clears locked,
\* runs the load step of an unencrypted open (page count and page mode of the
\* document) and returns true exactly when the trailer has a Root.
C9_UnlockLoads ==
    [][ \A password \in Passwords :
          ( /\ d.locked /\ d.mdoc # Null
            /\ fz_authenticate_password(mfile, password)
            /\ Unlock(password) ) =>
              LET plain == [mfile EXCEPT !.needsPw = FALSE]
                  open  == Document_load(d, plain, d.mdoc, locale)
              IN  /\ ~d'.locked
                  /\ last'.ret = mfile.hasRoot
                  /\ last'.ret = open.ret
                  /\ d'.pageCount = open.d.pageCount
                  /\ d'.pageMode = open.d.pageMode
                  /\ mfile.hasRoot =>
                        /\ phase' = "Open"
                        /\ d'.pageCount = mfile.pages
                        /\ d'.pageMode = IF mfile.mode \in PageModes
                                         THEN mfile.mode ELSE d.pageMode
                  /\ ~mfile.hasRoot =>
                        /\ phase' # "Open"
                        /\ d'.pageCount = d.pageCount
                        /\ d'.pageMode = d.pageMode
      ]_vars

\* C9 witness: an accepted password opened a document with pages and a mode.
C9_Witness ==
    /\ last.op = "unlock" /\ last.ret /\ phase = "Open" /\ authed
    /\ d.pageCount = mfile.pages /\ d.pageCount > 0
    /\ d.pageMode = "UseOutlines"

\* C10: when the trailer has no Root, open and unlock return false, the
\* object is not Open, and pageCount is 0 from then on until an open succeeds.
C10_NoRootNotUsable ==
    /\ last.why = "noroot" => ~last.ret /\ phase # "Open"
    /\ noRootSince => d.pageCount = 0

\* C11: with no document held, infoKeys, infoKey and outline return an empty
\* or absent result, the process survives, and no engine call is made (none
\* is handed the null document).
C11_NullDocQueriesSafe ==
    (last.op \in {"infoKeys", "infoKey", "outline"} /\ d.mdoc = Null) =>
        /\ ~crashed
        /\ last.calls = {}
        /\ last.op = "infoKeys" => last.keys = << >>
        /\ last.op = "infoKey" => reply.value = << >>
        /\ last.op = "outline" => ~reply.value.has

\* The name-typed keys of an Info dictionary, in dictionary order.
NameKeys(dict) ==
    LET named == SelectSeq(dict.keys, LAMBDA e : e.isName)
    IN  [i \in 1..Len(named) |-> named[i].name]

\* C12: infoKeys returns exactly the name-typed keys of the Info dictionary of
\* the held document, in order, and nothing when the object is not Open or
\* the document has no Info dictionary.
C12_InfoKeysExact ==
    last.op = "infoKeys" =>
        last.keys = IF phase = "Open" /\ mfile.info.present
                    THEN NameKeys(mfile.info) ELSE << >>

\* The text infoKey is to return for a key of a document's Info dictionary.
InfoText(info, key) ==
    IF ~info.present \/ \A i \in DOMAIN info.keys :
                            ~(info.keys[i].isName /\ info.keys[i].name = key)
    THEN << >>
    ELSE LET i == CHOOSE i \in DOMAIN info.keys :
                    /\ info.keys[i].isName /\ info.keys[i].name = key
                    /\ \A j \in 1..(i - 1) :
                          ~(info.keys[j].isName /\ info.keys[j].name = key)
         IN  IF info.keys[i].val.type = "string" THEN info.keys[i].val.text
             ELSE << >>

\* C13: on an open document infoKey returns empty text for an absent key and
\* for an entry that is not a string, the text of a string entry otherwise,
\* and changes nothing but the memoized Info reference.
C13_InfoValue ==
    [][ (last'.op = "infoKey" /\ phase' = "Open") =>
            /\ reply'.value = InfoText(mfile'.info, reply'.engine)
            /\ [d' EXCEPT !.info = d.info] = d
            /\ d'.info \in {d.info, [of |-> d.mdoc, dict |-> mfile.info]}
            /\ ~crashed'
      ]_vars

\* C14: after a successful open or unlock pageMode is the mode the trailer
\* names when it is one of the six known modes, and UseNone otherwise,
\* whatever was opened before.
C14_PageModeFromTrailer ==
    (last.op \in {"load", "unlock"} /\ last.ret /\ phase = "Open") =>
        d.pageMode = IF mfile.mode \in PageModes THEN mfile.mode ELSE "UseNone"

\* The positions of the nodes of an engine outline: index paths from the top.
RECURSIVE EnginePaths(_)
EnginePaths(list) ==
    UNION { { << i >> } \cup { << i >> \o p : p \in EnginePaths(list[i].down) }
            : i \in DOMAIN list }

RECURSIVE EngineAt(_, _)
EngineAt(list, path) ==
    IF Len(path) = 1 THEN list[path[1]]
    ELSE EngineAt(list[path[1]].down, Tail(path))

\* The same for the children of a returned Outline.
RECURSIVE MirrorPaths(_)
MirrorPaths(children) ==
    UNION { { << i >> } \cup { << i >> \o p : p \in MirrorPaths(children[i].children) }
            : i \in DOMAIN children }

RECURSIVE MirrorAt(_, _)
MirrorAt(children, path) ==
    IF Len(path) = 1 THEN children[path[1]]
    ELSE MirrorAt(children[path[1]].children, Tail(path))

\* C15: outline returns absent when the engine reports no outline; otherwise
\* a root without title and link under which every engine node has exactly
\* one node at the same position (same parent, same place among the
\* siblings) with its title and link, and the engine's outline is dropped
\* once, after the conversion.
C15_OutlineMirrors ==
    (last.op = "outline" /\ ~crashed) =>
        LET list == reply.engine
            v == reply.value
        IN  IF list = << >>
            THEN ~v.has /\ \A i \in DOMAIN v.events : v.events[i] # "fz_drop_outline"
            ELSE /\ v.has
                 /\ v.root.title = << >> /\ v.root.link = << >>
                 /\ MirrorPaths(v.root.children) = EnginePaths(list)
                 /\ \A p \in EnginePaths(list) :
                       LET n == EngineAt(list, p)
                           m == MirrorAt(v.root.children, p)
                       IN  /\ m.title = IF n.title.has
                                        THEN QString_fromUtf8(n.title.s, 1) ELSE << >>
                           /\ m.link = IF n.uri.has THEN n.uri.s ELSE << >>
                           /\ Len(m.children) = Len(n.down)
                 /\ Cardinality({ i \in DOMAIN v.events :
                                    v.events[i] = "fz_drop_outline" }) = 1
                 /\ \A i, j \in DOMAIN v.events :
                       (v.events[i] = "convertOutline"
                        /\ v.events[j] = "fz_drop_outline") => i < j

\* C15 witness: a three-level outline with siblings was mirrored.
C15_Witness ==
    /\ last.op = "outline" /\ ~crashed /\ reply.value.has
    /\ Len(reply.engine) = 3
    /\ << 1, 2, 1 >> \in MirrorPaths(reply.value.root.children)
    /\ MirrorAt(reply.value.root.children, << 1, 2, 1 >>).title = << 120 >>
    /\ MirrorAt(reply.value.root.children, << 3 >>).title = << 233 >>

\* C16: pdfVersion returns 0 when no document is held or the format string is
\* not "PDF <major>.<minor>", and major + minor/10 otherwise: in tenths,
\* 10 * major + minor.
C16_PdfVersion ==
    last.op = "pdfVersion" =>
        IF d.mdoc # Null /\ reply.engine.found
           /\ \E ma \in 0..MaxMajor, mi \in 0..MaxMinor :
                 reply.engine.buf = FormatString(ma, mi)
        THEN \E ma \in 0..MaxMajor, mi \in 0..MaxMinor :
                 /\ reply.engine.buf = FormatString(ma, mi)
                 /\ reply.value = 10 * ma + mi
        ELSE reply.value = 0

\* C16 witness: "PDF 1.7" gave 1.7.
C16_Witness ==
    /\ last.op = "pdfVersion" /\ d.mdoc # Null
    /\ reply.engine = [found |-> TRUE,
                       buf |-> << "P", "D", "F", " ", "1", ".", "7" >>]
    /\ reply.value = 17

\* C17: after close, a second close drops nothing and leaves Data as it is,
\* and the state seen after either is pageCount 0, locked false and no info
\* keys.
C17_CloseIdempotent ==
    last.op = "close" =>
        LET again == Document_close(d)
        IN  /\ again.rel = << >>
            /\ again.d = d
            /\ d.pageCount = 0 /\ ~d.locked
            /\ Document_infoKeys(d, mfile).keys = << >>

\* C18: the cached Info reference is absent or is the Info dictionary of the
\* held document; it is absent when no document is held.
C18_InfoRefFresh ==
    \/ d.info = NullInfo
    \/ /\ d.mdoc # Null
       /\ d.info = [of |-> d.mdoc, dict |-> mfile.info]

\* C19: locked implies that a document handle is held, so unlock never hands
\* the engine a null document.
C19_LockedHasHandle ==
    /\ d.locked => d.mdoc # Null
    /\ ~(last.op = "unlock" /\ crashed)

====
